---- MODULE Spec2Model ----
(***************************************************************************)
(* A model of the trivia API (backend/flaskr/__init__.py): the Flask       *)
(* request handlers over the Question and Category tables, the pagination  *)
(* helper and the quiz's rejection-sampling selection.                      *)
(*                                                                          *)
(* One request is served at a time.  A handler is one action, except       *)
(* POST /quizzes, whose sampling loop takes a step per test and per draw.  *)
(***************************************************************************)
EXTENDS Integers, Sequences, FiniteSets, TLC

VARIABLES
    questions,        \* the Question table: a set of rows
    categories,       \* the Category table: id -> type
    next_id,          \* the Question id sequence of the store
    request,          \* the request being served, or served last
    response,         \* its response; NoResponse while it is being served
    pc,               \* "idle", or inside get_quiz_questions' loop: at its
                      \* test ("quiz_while") or in its body ("quiz_draw")
    quiz_questions,   \* get_quiz_questions: the local list quiz_questions
    current_question, \* get_quiz_questions: the local current_question
    client            \* a quiz client: the history it resends

vars == <<questions, categories, next_id, request, response, pc,
          quiz_questions, current_question, client>>

----------------------------------------------------------------------------
(* Bounds of the model *)

\* Spec: how many questions are ever created
MaxQuestions == 3
\* QuizSpec: how many questions are ever created
MaxQuizQuestions == 3
\* QuizSpec: the longest previous_questions list sent
MaxPrev == 2
\* ClientSpec: how many questions are ever created
MaxClientQuestions == 3
\* PageSpec: how many questions are ever created
MaxPageQuestions == 22
\* PageSpec: DELETE requests name ids up to this one
MaxPageDelete == 2
\* PageSpec, PaginateSpec: the largest page index asked for
MaxPage == 4
\* PaginateSpec: the longest list paginated
MaxRows == 23

----------------------------------------------------------------------------
(* Values *)

QUESTIONS_PER_PAGE == 10

\* Python's None, where a string or None is serialized
None == "None"

Min(a, b) == IF a < b THEN a ELSE b
Max(a, b) == IF a > b THEN a ELSE b

Range(s) == {s[i] : i \in DOMAIN s}

\* A Question row: <<id, question, answer, category, difficulty>>
Row(id, question, answer, category, difficulty) ==
    <<id, question, answer, category, difficulty>>
RowId(row) == row[1]
RowQuestion(row) == row[2]
RowCategory(row) == row[4]

\* Question.format(): the serialized form of a row
format(row) ==
    [id |-> row[1], question |-> row[2], answer |-> row[3],
     category |-> row[4], difficulty |-> row[5]]

\* [question.format() for question in rows]
FormatAll(rows) == [i \in 1..Len(rows) |-> format(rows[i])]

\* query.order_by(Question.id).all(): the rows in ascending id order
RECURSIVE order_by_id(_)
order_by_id(rows) ==
    IF rows = {} THEN <<>>
    ELSE LET first == CHOOSE r \in rows : \A o \in rows : RowId(r) <= RowId(o)
         IN  <<first>> \o order_by_id(rows \ {first})

\* query.all() without order_by: the rows in an order the store chooses
RECURSIVE all_rows(_)
all_rows(rows) ==
    IF rows = {} THEN {<<>>}
    ELSE UNION {{<<r>> \o rest : rest \in all_rows(rows \ {r})} : r \in rows}

\* Python's s[start:end] (0-based, negative indices count from the end,
\* both clipped to the list)
PyIndex(i, n) == IF i < 0 THEN Max(i + n, 0) ELSE Min(i, n)
PySlice(s, start, end) ==
    LET lo == PyIndex(start, Len(s))
        hi == PyIndex(end, Len(s))
    IN  IF lo >= hi THEN <<>> ELSE SubSeq(s, lo + 1, hi)

\* paginate_questions with a page index counted from 0
paginate_questions_from_zero(questions_rows, page_index) ==
    LET start == page_index * QUESTIONS_PER_PAGE
        end   == start + QUESTIONS_PER_PAGE
        qs    == FormatAll(questions_rows)
    IN  PySlice(qs, start, end)

\* paginate_questions(questions_rows, page_index)
paginate_questions(questions_rows, page_index) ==
    LET start == (page_index - 1) * QUESTIONS_PER_PAGE
        end   == start + QUESTIONS_PER_PAGE
        qs    == FormatAll(questions_rows)
    IN  PySlice(qs, start, end)

\* paginate_questions(questions_rows): page_index defaults to 1
paginate_questions_default(questions_rows) ==
    paginate_questions(questions_rows, 1)

----------------------------------------------------------------------------
(* Text: a string is a sequence of characters *)

Lower(c) == CASE c = "A" -> "a" [] c = "B" -> "b" [] OTHER -> c
LowerAll(s) == [i \in 1..Len(s) |-> Lower(s[i])]

\* Question.question.ilike('%' + search_term + '%')
ilike_contains(text, search_term) ==
    \E k \in 0..(Len(text) - Len(search_term)) :
        SubSeq(LowerAll(text), k + 1, k + Len(search_term)) = LowerAll(search_term)

----------------------------------------------------------------------------
(* Responses *)

NoResponse == [status |-> 0]

\* abort(code): raises an HTTPException
abort(code) == [raised |-> TRUE, code |-> code]
\* return jsonify(body)
jsonify(body) == [raised |-> FALSE, body |-> body]

\* try: ... except: abort(500)  -- the bare except also catches the
\* HTTPException that abort() raised inside the try block
try_except(outcome) == IF outcome.raised THEN abort(500) ELSE outcome

\* the @app.errorhandler bodies
ErrorMessage(code) ==
    CASE code = 400 -> "Bad request error"
      [] code = 404 -> "Resource not found"
      [] code = 405 -> "Method not allowed"
      [] code = 422 -> "Unprocessable error"
      [] code = 500 -> "Server error has been occured"
ErrorBody(code) == [success |-> FALSE, error |-> code, message |-> ErrorMessage(code)]

\* what Flask sends for a handler's outcome
respond(outcome) ==
    IF outcome.raised
    THEN [status |-> outcome.code, body |-> ErrorBody(outcome.code)]
    ELSE [status |-> 200, body |-> outcome.body]

\* request_json.get(key) is None
is_none(request_json, key) == key \notin DOMAIN request_json

----------------------------------------------------------------------------
(* The store (models.py): queries, insert and delete *)

\* filter_by_id with the filter on the wrong column
filter_by_id_wrong_column(rows, question_id) ==
    {r \in rows : RowCategory(r) = question_id}

\* Question.query.filter_by(id=question_id): one_or_none() is None when empty
filter_by_id(rows, question_id) == {r \in rows : RowId(r) = question_id}

\* Category.query.filter_by(id=category_id): one_or_none() is None when empty
category_by_id(cats, category_id) == {c \in DOMAIN cats : c = category_id}

\* Question.query.filter_by(category=category_id)
filter_by_category(rows, category_id) == {r \in rows : RowCategory(r) = category_id}

\* Question.query.filter(Question.question.ilike('%' + search_term + '%'))
filter_ilike(rows, search_term) ==
    {r \in rows : ilike_contains(RowQuestion(r), search_term)}

\* Question(...).insert(): the store assigns the next id of its sequence
Question_insert(rows, id, question, answer, difficulty, category) ==
    rows \cup {Row(id, question, answer, category, difficulty)}

\* question.delete()
Question_delete(rows, question) == rows \ {question}

----------------------------------------------------------------------------
(* The handlers.  None of them reads or writes the client. *)

QuizIdle == <<pc, quiz_questions, current_question>>

\* GET /categories
get_categories ==
    /\ pc = "idle"
    /\ request' = [op |-> "get_categories"]
    /\ response' = respond(try_except(
            jsonify([success |-> TRUE, categories |-> categories])))
    /\ UNCHANGED <<questions, categories, next_id, QuizIdle>>

\* request.args.get('page', 1, type=int)
page_arg(args) == IF "page" \in DOMAIN args THEN args.page ELSE 1

\* the body of get_questions' try block
get_questions_try(rows, cats, page_index) ==
    LET questions_rows      == order_by_id(rows)
        questions_paginated == paginate_questions(questions_rows, page_index)
    IN  IF Len(questions_paginated) = 0
        THEN abort(404)
        ELSE jsonify([success          |-> TRUE,
                      questions        |-> questions_paginated,
                      total_questions  |-> Len(questions_rows),
                      categories       |-> cats,
                      current_category |-> None])

\* GET /questions?page=N
get_questions(args) ==
    /\ pc = "idle"
    /\ request' = [op |-> "get_questions", args |-> args]
    /\ response' = respond(try_except(
            get_questions_try(questions, categories, page_arg(args))))
    /\ UNCHANGED <<questions, categories, next_id, QuizIdle>>

\* DELETE /questions/<question_id>
delete_question(question_id) ==
    LET question == filter_by_id(questions, question_id)
    IN  /\ pc = "idle"
        /\ request' = [op |-> "delete_question", question_id |-> question_id]
        /\ IF question = {}
           THEN /\ response' = respond(try_except(abort(422)))
                /\ UNCHANGED questions
           ELSE /\ questions' = Question_delete(questions, CHOOSE q \in question : TRUE)
                /\ response' = respond(try_except(
                        jsonify([success |-> TRUE, deleted |-> question_id])))
        /\ UNCHANGED <<categories, next_id, QuizIdle>>

\* new_question_question is None or ... or new_question_category is None
create_fields_missing(request_json) ==
    \/ is_none(request_json, "question")
    \/ is_none(request_json, "answer")
    \/ is_none(request_json, "difficulty")
    \/ is_none(request_json, "category")

\* last_page_index = (total_questions_num // QUESTIONS_PER_PAGE) + 1
last_page_index(total_questions_num) ==
    (total_questions_num \div QUESTIONS_PER_PAGE) + 1

\* the response of a create, from the table after the insert
create_response(rows_after, new_id, new_question) ==
    LET questions_rows      == order_by_id(rows_after)
        total_questions_num == Len(questions_rows)
        questions_paginated ==
            paginate_questions(questions_rows, last_page_index(total_questions_num))
    IN  jsonify([success          |-> TRUE,
                 created          |-> new_id,
                 question_created |-> new_question,
                 questions        |-> questions_paginated,
                 total_questions  |-> total_questions_num])

\* the response of a search over the rows it found
search_response(questions_search) ==
    IF Len(questions_search) = 0
    THEN abort(404)
    ELSE jsonify([success         |-> TRUE,
                  questions       |-> paginate_questions_default(questions_search),
                  total_questions |-> Len(questions_search)])

\* POST /questions: a search when searchTerm is given, else a create
post_search_or_question(request_json) ==
    /\ pc = "idle"
    /\ request' = [op |-> "post_questions", json |-> request_json]
    /\ IF ~is_none(request_json, "searchTerm")
       THEN /\ \E questions_search \in
                    all_rows(filter_ilike(questions, request_json.searchTerm)) :
                  response' = respond(try_except(search_response(questions_search)))
            /\ UNCHANGED <<questions, next_id>>
       ELSE IF create_fields_missing(request_json)
       THEN /\ response' = respond(try_except(abort(422)))
            /\ UNCHANGED <<questions, next_id>>
       ELSE /\ questions' = Question_insert(questions, next_id,
                                request_json.question, request_json.answer,
                                request_json.difficulty, request_json.category)
            /\ next_id' = next_id + 1
            /\ response' = respond(try_except(
                    create_response(questions', next_id, request_json.question)))
    /\ UNCHANGED <<categories, QuizIdle>>

\* the response of a category listing over the rows it found
category_response(questions_by_category, category_type) ==
    IF Len(questions_by_category) = 0
    THEN abort(404)
    ELSE jsonify([success          |-> TRUE,
                  questions        |-> paginate_questions_default(questions_by_category),
                  total_questions  |-> Len(questions_by_category),
                  current_category |-> category_type])

\* GET /categories/<category_id>/questions
get_questions_by_category(category_id) ==
    LET current_category == category_by_id(categories, category_id)
    IN  /\ pc = "idle"
        /\ request' = [op |-> "get_questions_by_category", category_id |-> category_id]
        /\ IF current_category = {}
           THEN response' = respond(try_except(abort(422)))
           ELSE \E questions_by_category \in
                    all_rows(filter_by_category(questions, category_id)) :
                  response' = respond(try_except(
                      category_response(questions_by_category, categories[category_id])))
        /\ UNCHANGED <<questions, categories, next_id, QuizIdle>>

----------------------------------------------------------------------------
(* POST /quizzes *)

\* quiz_fields_missing with `and` for `or`
quiz_fields_missing_and(request_json) ==
    /\ is_none(request_json, "quiz_category")
    /\ is_none(request_json, "previous_questions")

\* quiz_category is None or previous_questions is None
quiz_fields_missing(request_json) ==
    \/ is_none(request_json, "quiz_category")
    \/ is_none(request_json, "previous_questions")

\* the rows the quiz draws from: all of them for category id 0, else the
\* category's.  The order all() returns them in is not observable, as the
\* index into the list is drawn uniformly: the list is kept in id order.
select_quiz_questions(rows, quiz_category) ==
    IF quiz_category.id = 0
    THEN order_by_id(rows)
    ELSE order_by_id(filter_by_category(rows, quiz_category.id))

\* quiz_complete one question early
quiz_complete_off_by_one(pool, previous_questions) ==
    Len(pool) = Len(previous_questions) + 1

\* len(quiz_questions) == len(previous_questions)
quiz_complete(pool, previous_questions) == Len(pool) = Len(previous_questions)

\* already_asked reading the wrong attribute of the question
already_asked_wrong_attribute(question, previous_questions) ==
    RowCategory(question) \in Range(previous_questions)

\* current_question.id in previous_questions
already_asked(question, previous_questions) ==
    RowId(question) \in Range(previous_questions)

\* generate_random_question(): random.randrange(0, len(quiz_questions), 1)
\* drew random_index (counted from 1 here)
generate_random_question(pool, random_index) == pool[random_index]

\* get_quiz_questions up to its first draw.  No try block encloses it:
\* abort(422) reaches the client, and the ValueError of randrange(0, 0, 1)
\* on an empty list is answered by the 500 handler.
get_quiz_questions(request_json) ==
    /\ pc = "idle"
    /\ request' = [op |-> "quizzes", json |-> request_json]
    /\ IF quiz_fields_missing(request_json)
       THEN /\ response' = respond(abort(422))
            /\ UNCHANGED QuizIdle
       ELSE IF is_none(request_json, "quiz_category")
                \/ is_none(request_json, "previous_questions")
       THEN \* quiz_category['id'] or len(previous_questions) on None: TypeError
            /\ response' = respond(abort(500))
            /\ UNCHANGED QuizIdle
       ELSE LET pool == select_quiz_questions(questions, request_json.quiz_category)
            IN  IF quiz_complete(pool, request_json.previous_questions)
                THEN /\ response' = respond(jsonify([success |-> TRUE]))
                     /\ UNCHANGED QuizIdle
                ELSE IF Len(pool) = 0
                THEN /\ response' = respond(abort(500))
                     /\ UNCHANGED QuizIdle
                ELSE /\ pc' = "quiz_while"
                     /\ quiz_questions' = pool
                     /\ \E random_index \in 1..Len(pool) :
                          current_question' = generate_random_question(pool, random_index)
                     /\ response' = NoResponse
    /\ UNCHANGED <<questions, categories, next_id>>

\* while (current_question.id in previous_questions): the test holds
quiz_while ==
    /\ pc = "quiz_while"
    /\ already_asked(current_question, request.json.previous_questions)
    /\ pc' = "quiz_draw"
    /\ UNCHANGED <<questions, categories, next_id, request, response,
                   quiz_questions, current_question>>

\* the loop's body: current_question = generate_random_question()
quiz_redraw(random_index) ==
    /\ pc = "quiz_draw"
    /\ random_index \in 1..Len(quiz_questions)
    /\ current_question' = generate_random_question(quiz_questions, random_index)
    /\ pc' = "quiz_while"
    /\ UNCHANGED <<questions, categories, next_id, request, response,
                   quiz_questions>>

\* the test fails and the loop ends: return jsonify({success, question})
quiz_return ==
    /\ pc = "quiz_while"
    /\ ~already_asked(current_question, request.json.previous_questions)
    /\ response' = respond(jsonify(
            [success |-> TRUE, question |-> format(current_question)]))
    /\ pc' = "idle"
    /\ quiz_questions' = <<>>
    /\ current_question' = <<>>
    /\ UNCHANGED <<questions, categories, next_id, request>>

----------------------------------------------------------------------------
(* Inputs *)

\* the Category table the service starts with
Categories == (1 :> "Science") @@ (2 :> "Art")

\* category ids a listing may name: 0 and 3 are in no table
CategoryIds == 0..3

\* category ids a quiz may name: 0 is "all"
QuizCategoryIds == {0} \cup DOMAIN Categories

\* question texts and search terms
Texts == {<<"A", "b">>, <<"b", "a">>}
Terms == {<<>>, <<"a", "B">>, <<"b", "b">>}

\* a JSON object with `key` present (any of `values`) or missing
Opt(key, values) == {<<>>} \cup {key :> v : v \in values}

\* bodies of POST /questions: a create with each field given or missing, a
\* search, and a search that also carries the fields of a create
CreateBodies ==
    {q @@ a @@ d @@ c :
        q \in Opt("question", Texts), a \in Opt("answer", {"answer"}),
        d \in Opt("difficulty", {1}), c \in Opt("category", {1, 2})}
SearchBodies ==
    {"searchTerm" :> t : t \in Terms} \cup
    {[searchTerm |-> <<"b", "b">>, question |-> <<"b", "a">>, answer |-> "answer",
      difficulty |-> 1, category |-> 1]}
QuestionBodies == CreateBodies \cup SearchBodies

\* bodies of POST /questions that differ in the category alone
PlainQuestionBodies ==
    {[question |-> <<"A", "b">>, answer |-> "answer", difficulty |-> 1, category |-> c] :
        c \in {1, 2}}

\* query strings of GET /questions
PageArgs(lo, hi) == {<<>>} \cup {[page |-> p] : p \in lo..hi}

\* lists of ids of length at most n
RECURSIVE IdLists(_, _)
IdLists(ids, n) ==
    IF n = 0 THEN {<<>>}
    ELSE IdLists(ids, n - 1) \cup
         {Append(l, i) : l \in {k \in IdLists(ids, n - 1) : Len(k) = n - 1}, i \in ids}

\* the quiz_category object of a request
QuizCategory(id) ==
    [id |-> id, type |-> IF id \in DOMAIN Categories THEN Categories[id] ELSE "click"]

\* bodies of POST /quizzes
QuizBodies ==
    {p @@ c :
        p \in Opt("previous_questions", IdLists(1..MaxQuizQuestions, MaxPrev)),
        c \in Opt("quiz_category", {QuizCategory(id) : id \in QuizCategoryIds})}

NoClient == [active |-> FALSE, category |-> 0, history |-> <<>>, mutated |-> FALSE]

Init ==
    /\ questions = {}
    /\ categories = Categories
    /\ next_id = 1
    /\ request = [op |-> "none"]
    /\ response = NoResponse
    /\ pc = "idle"
    /\ quiz_questions = <<>>
    /\ current_question = <<>>
    /\ client = NoClient

----------------------------------------------------------------------------
(* Spec: the category and question endpoints *)

GetCategories == get_categories /\ UNCHANGED client

GetQuestions == \E args \in PageArgs(1, 2) : get_questions(args) /\ UNCHANGED client

DeleteQuestion ==
    \E question_id \in 1..MaxQuestions + 1 :
        delete_question(question_id) /\ UNCHANGED client

PostQuestions ==
    \E request_json \in QuestionBodies :
        /\ next_id <= MaxQuestions \/ ~is_none(request_json, "searchTerm")
                                   \/ create_fields_missing(request_json)
        /\ post_search_or_question(request_json)
        /\ UNCHANGED client

GetQuestionsByCategory ==
    \E category_id \in CategoryIds :
        get_questions_by_category(category_id) /\ UNCHANGED client

Next ==
    \/ GetCategories
    \/ GetQuestions
    \/ DeleteQuestion
    \/ PostQuestions
    \/ GetQuestionsByCategory

Spec == Init /\ [][Next]_vars

----------------------------------------------------------------------------
(* Properties of the category and question endpoints (Spec) *)

Ids(rows) == {RowId(r) : r \in rows}

ErrorResponse(code) == [status |-> code, body |-> ErrorBody(code)]

\* page p (p >= 1) of a list, as the contract words it: the elements at
\* positions (p-1)*10 up to but excluding p*10, clipped to the list
PageOf(items, p) ==
    LET first == (p - 1) * 10
        last  == IF p * 10 < Len(items) THEN p * 10 ELSE Len(items)
    IN  IF first >= Len(items) THEN <<>>
        ELSE [i \in 1..(last - first) |-> items[first + i]]

\* the page a GET /questions request asks for
AskedPage(req) == IF "page" \in DOMAIN req.args THEN req.args.page ELSE 1

IsSearch(req) == req.op = "post_questions" /\ "searchTerm" \in DOMAIN req.json
IsCreate(req) == req.op = "post_questions" /\ "searchTerm" \notin DOMAIN req.json
CompleteCreate(req) ==
    IsCreate(req) /\ {"question", "answer", "difficulty", "category"} \subseteq DOMAIN req.json

\* C2: a list query with an empty result is answered 404 "Resource not
\* found": an empty page of GET /questions, a search that matches no
\* question, a listing of an existing category that has no question.
C2_EmptyResultIs404 ==
    /\ (request.op = "get_questions"
            /\ PageOf(order_by_id(questions), AskedPage(request)) = <<>>)
        => response = ErrorResponse(404)
    /\ (IsSearch(request)
            /\ \A r \in questions :
                  ~ilike_contains(RowQuestion(r), request.json.searchTerm))
        => response = ErrorResponse(404)
    /\ (request.op = "get_questions_by_category"
            /\ request.category_id \in DOMAIN categories
            /\ \A r \in questions : RowCategory(r) # request.category_id)
        => response = ErrorResponse(404)

\* C3: a create with a required field missing is answered 422
\* "Unprocessable error" and inserts nothing.
C3_MissingFieldIs422 ==
    [][(IsCreate(request') /\ ~CompleteCreate(request'))
          => (response' = ErrorResponse(422) /\ questions' = questions)]_vars

\* C7: DELETE of a stored id answers 200 {success, deleted: id} and removes
\* exactly that question, leaving the categories alone; an id once removed
\* never returns to the table, and every list a response carries holds
\* stored questions only.
C7_DeleteRemovesExactlyOne ==
    [][/\ (request'.op = "delete_question"
              /\ request'.question_id \in Ids(questions))
          => /\ response' = [status |-> 200,
                             body |-> [success |-> TRUE,
                                       deleted |-> request'.question_id]]
             /\ questions' = {r \in questions : RowId(r) # request'.question_id}
             /\ categories' = categories
       /\ \A id \in 1..(next_id - 1) :
             id \notin Ids(questions) => id \notin Ids(questions')
       /\ (response'.status = 200 /\ "questions" \in DOMAIN response'.body)
          => \A i \in DOMAIN response'.body.questions :
                response'.body.questions[i].id \in Ids(questions')]_vars

\* a question was deleted while another one stays stored
C7_Witness ==
    /\ request.op = "delete_question"
    /\ response.status = 200
    /\ request.question_id < next_id
    /\ request.question_id \notin Ids(questions)
    /\ questions # {}

\* C9: a request that names a missing entity is answered 422
\* "Unprocessable error" and changes nothing: DELETE of an id that is not
\* stored, a listing of a category that is not in the table.
C9_MissingEntityIs422 ==
    [][((request'.op = "delete_question"
              /\ request'.question_id \notin Ids(questions))
          \/ (request'.op = "get_questions_by_category"
              /\ request'.category_id \notin DOMAIN categories))
          => /\ response' = ErrorResponse(422)
             /\ questions' = questions
             /\ categories' = categories]_vars

----------------------------------------------------------------------------
(* QuizSpec: POST /quizzes with any history, over a table that grows *)

QuizStart ==
    \E request_json \in QuizBodies :
        get_quiz_questions(request_json) /\ UNCHANGED client

QuizWhile == quiz_while /\ UNCHANGED client

QuizRedraw(random_index) == quiz_redraw(random_index) /\ UNCHANGED client

QuizReturn == quiz_return /\ UNCHANGED client

QuizCreate ==
    \E request_json \in PlainQuestionBodies :
        /\ next_id <= MaxQuizQuestions
        /\ post_search_or_question(request_json)
        /\ UNCHANGED client

QuizNext ==
    \/ QuizStart
    \/ QuizWhile
    \/ \E random_index \in 1..MaxQuizQuestions : QuizRedraw(random_index)
    \/ QuizReturn
    \/ QuizCreate

QuizSpec == Init /\ [][QuizNext]_vars

\* the request keeps running, and random.randrange draws every index again
\* and again
QuizFairness ==
    /\ WF_vars(QuizWhile)
    /\ WF_vars(QuizReturn)
    /\ \A random_index \in 1..MaxQuizQuestions : SF_vars(QuizRedraw(random_index))

FairQuizSpec == QuizSpec /\ QuizFairness

BothFields(req) ==
    req.op = "quizzes" /\ {"previous_questions", "quiz_category"} \subseteq DOMAIN req.json

\* the pool of a quiz request, as the contract words it
PoolOf(req) ==
    IF req.json.quiz_category.id = 0 THEN questions
    ELSE {r \in questions : RowCategory(r) = req.json.quiz_category.id}

Served(resp) == resp.status = 200 /\ "question" \in DOMAIN resp.body

\* C1: POST /quizzes with both fields: when the history is shorter than the
\* pool the answer carries a question of the pool whose id is not in the
\* history; when they have the same length the answer is {success} alone
\* (and the sampling loop, which draws from the pool, is not entered).
C1_QuizAnswer ==
    /\ (BothFields(request) /\ pc # "idle")
       => /\ Len(request.json.previous_questions) # Cardinality(PoolOf(request))
          /\ Range(quiz_questions) = PoolOf(request)
    /\ (BothFields(request) /\ response # NoResponse)
       => LET A == request.json.previous_questions
              P == PoolOf(request)
          IN  /\ Len(A) < Cardinality(P)
                 => /\ Served(response)
                    /\ response.body.success
                    /\ \E r \in P :
                          /\ response.body.question.id = RowId(r)
                          /\ response.body.question.question = RowQuestion(r)
                          /\ response.body.question.category = RowCategory(r)
                    /\ response.body.question.id \notin Range(A)
              /\ Len(A) = Cardinality(P)
                 => response = [status |-> 200, body |-> [success |-> TRUE]]

\* a question was served from one category's pool although the history
\* named another question of that pool
C1_Witness ==
    /\ BothFields(request)
    /\ Served(response)
    /\ request.json.quiz_category.id # 0
    /\ Range(request.json.previous_questions) \cap Ids(PoolOf(request)) # {}
    /\ PoolOf(request) # questions

\* C6: a quiz request that does not signal completion leaves its sampling
\* loop: it picks an eligible question and returns.
C6_QuizTerminates == (pc # "idle") ~> Served(response)

\* C10: POST /quizzes without previous_questions or without quiz_category
\* is answered 422 "Unprocessable error" and selects no question.
C10_QuizMissingFieldIs422 ==
    (request.op = "quizzes" /\ ~BothFields(request))
    => /\ response = ErrorResponse(422)
       /\ pc = "idle"
       /\ quiz_questions = <<>>
       /\ current_question = <<>>

\* a quiz request that carried only one of the two fields was answered
C10_Witness ==
    /\ request.op = "quizzes"
    /\ DOMAIN request.json = {"previous_questions"}
    /\ response.status = 422
    /\ questions # {}

----------------------------------------------------------------------------
(* ClientSpec: a quiz client plays against a table that others change *)

\* the body the client sends: its whole history and its category
ClientBody(c) ==
    [previous_questions |-> c.history, quiz_category |-> QuizCategory(c.category)]

\* the client starts a quiz: an empty history, and the first request
ClientStart ==
    \E category \in QuizCategoryIds :
        /\ client' = [active |-> TRUE, category |-> category,
                      history |-> <<>>, mutated |-> FALSE]
        /\ get_quiz_questions(ClientBody(client'))

\* the client asks for the next question
ClientAsk ==
    /\ client.active
    /\ get_quiz_questions(ClientBody(client))
    /\ UNCHANGED client

ClientWhile == quiz_while /\ UNCHANGED client

ClientRedraw(random_index) == quiz_redraw(random_index) /\ UNCHANGED client

\* the client is served a question and appends its id to the history
ClientServed ==
    /\ quiz_return
    /\ client' = [client EXCEPT !.history = Append(@, response'.body.question.id)]

\* someone creates a question
ClientCreate ==
    \E request_json \in PlainQuestionBodies :
        /\ next_id <= MaxClientQuestions
        /\ post_search_or_question(request_json)
        /\ client' = [client EXCEPT !.mutated = TRUE]

\* someone deletes a question
ClientDelete ==
    \E question_id \in 1..MaxClientQuestions :
        /\ delete_question(question_id)
        /\ client' = [client EXCEPT !.mutated = TRUE]

ClientNext ==
    \/ ClientStart
    \/ ClientAsk
    \/ ClientWhile
    \/ \E random_index \in 1..MaxClientQuestions : ClientRedraw(random_index)
    \/ ClientServed
    \/ ClientCreate
    \/ ClientDelete

ClientSpec == Init /\ [][ClientNext]_vars

Completion == [status |-> 200, body |-> [success |-> TRUE]]

\* C5: a client that resends its whole history is never served a question
\* whose id it already holds, and while the table is not changed it is told
\* the quiz is complete exactly when every question of the pool was served.
C5_QuizSequence ==
    /\ \A i, j \in DOMAIN client.history :
          i # j => client.history[i] # client.history[j]
    /\ (request.op = "quizzes" /\ Served(response))
       => response.body.question.id \notin Range(request.json.previous_questions)
    /\ (request.op = "quizzes" /\ ~client.mutated /\ response # NoResponse)
       => /\ response = Completion \/ Served(response)
          /\ response = Completion
             <=> Range(request.json.previous_questions) = Ids(PoolOf(request))
          /\ response = Completion
             <=> Len(request.json.previous_questions) = Cardinality(PoolOf(request))
    /\ (pc # "idle" /\ ~client.mutated)
       => \E r \in PoolOf(request) :
             RowId(r) \notin Range(request.json.previous_questions)

\* the client was served the two questions of one category, while the table
\* holds another, and was then told the quiz is complete
C5_Witness ==
    /\ request.op = "quizzes"
    /\ ~client.mutated
    /\ response = Completion
    /\ Len(client.history) = 2
    /\ client.category # 0
    /\ Cardinality(questions) = 3

----------------------------------------------------------------------------
(* PageSpec: GET /questions, creates and deletes over a table of several  *)
(* pages; the questions created differ in their ids alone                  *)

OneQuestionBody ==
    {[question |-> <<"A", "b">>, answer |-> "answer", difficulty |-> 1, category |-> 1]}

PageGet ==
    \E args \in PageArgs(-MaxPage, MaxPage) : get_questions(args) /\ UNCHANGED client

PageCreate ==
    \E request_json \in OneQuestionBody :
        /\ next_id <= MaxPageQuestions
        /\ post_search_or_question(request_json)
        /\ UNCHANGED client

PageDelete ==
    \E question_id \in 1..MaxPageDelete :
        delete_question(question_id) /\ UNCHANGED client

PageNext ==
    \/ PageGet
    \/ PageCreate
    \/ PageDelete

PageSpec == Init /\ [][PageNext]_vars

\* C4: the questions list of a successful create is a page of the
\* id-ordered question list, and the created question is on it.
C4_CreateReturnsPageWithNewQuestion ==
    (CompleteCreate(request) /\ response.status = 200)
    => /\ \E p \in 1..(Cardinality(questions) + 1) :
             response.body.questions = PageOf(FormatAll(order_by_id(questions)), p)
       /\ \E i \in DOMAIN response.body.questions :
             response.body.questions[i].id = response.body.created

\* C11: a page index p <= 0 never yields questions: paginate_questions
\* returns the empty list for it, so GET /questions?page=p is never
\* answered with success and a non-empty questions list.
C11_NonPositivePageIsEmpty ==
    (request.op = "get_questions" /\ AskedPage(request) <= 0)
    => /\ paginate_questions(order_by_id(questions), AskedPage(request)) = <<>>
       /\ ~(response.status = 200 /\ response.body.questions # <<>>)

----------------------------------------------------------------------------
(* PaginateSpec: paginate_questions applied to a list and a page index *)

\* a list of n rows in ascending id order, the ids `stride` apart
RowList(n, stride) ==
    [i \in 1..n |-> Row(i * stride, <<"A", "b">>, "answer", 1 + (i % 2), 1)]

PaginateCalls ==
    {[op |-> "paginate", questions_rows |-> RowList(n, stride)] @@ page :
        n \in 0..MaxRows, stride \in {1, 2},
        page \in {<<>>} \cup {[page_index |-> p] : p \in -MaxPage..MaxPage}}

PaginateInit ==
    /\ questions = {}
    /\ categories = Categories
    /\ next_id = 1
    /\ request \in PaginateCalls
    /\ response = NoResponse
    /\ pc = "idle"
    /\ quiz_questions = <<>>
    /\ current_question = <<>>
    /\ client = NoClient

Paginate ==
    /\ request.op = "paginate"
    /\ response = NoResponse
    /\ response' =
          [status |-> 200,
           body |-> IF "page_index" \in DOMAIN request
                    THEN paginate_questions(request.questions_rows, request.page_index)
                    ELSE paginate_questions_default(request.questions_rows)]
    /\ UNCHANGED <<questions, categories, next_id, request, pc, quiz_questions,
                   current_question, client>>

PaginateNext == Paginate

PaginateSpec == PaginateInit /\ [][PaginateNext]_vars

\* C8: for a page index p >= 1, and for p = 1 when it is omitted,
\* paginate_questions returns the elements at positions (p-1)*10 up to but
\* excluding p*10, in order, clipped to the list, and the empty list when
\* (p-1)*10 is at or past the end.
C8_PaginateSlice ==
    (request.op = "paginate" /\ response # NoResponse)
    => LET p     == IF "page_index" \in DOMAIN request THEN request.page_index ELSE 1
           items == FormatAll(request.questions_rows)
       IN  p >= 1
           => /\ response.body = PageOf(items, p)
              /\ (p - 1) * 10 >= Len(items) => response.body = <<>>
              /\ Len(response.body) <= 10
              /\ \A i \in DOMAIN response.body :
                    response.body[i].id = RowId(request.questions_rows[(p - 1) * 10 + i])

\* the third page of a list of 23 questions was returned: its last three
C8_Witness ==
    /\ request.op = "paginate"
    /\ "page_index" \in DOMAIN request
    /\ request.page_index = 3
    /\ response # NoResponse
    /\ Len(request.questions_rows) = 23
    /\ Len(response.body) = 3

====
